---- MODULE Spec2Model ----
(***************************************************************************)
(* Model of ocn_common.contracts: SchemaLoader (schema files, schema      *)
(* cache), ContractValidator (validator cache, validate_json,              *)
(* validate_cloudevent, get_validation_errors), called sequentially (Spec) *)
(* and by concurrent callers (ConcSpec); and of ocn_common.trace           *)
(* (TraceSpec).                                                            *)
(*                                                                         *)
(* Strings that the code joins with "/" (cache keys, paths) are sequences  *)
(* of segments, so that the join is a concatenation as it is in the code.  *)
(***************************************************************************)
EXTENDS Integers, Sequences, FiniteSets, TLC

VARIABLES
    fs,                \* the schema files under base_path: path -> content
    schemas_cache,     \* SchemaLoader._schemas_cache: cache key -> schema document
    validators_cache,  \* ContractValidator._validators_cache: cache key -> validator
    fs_changes,        \* how often the environment has changed a schema file
    load_failed,       \* history: the cache keys for which a load has failed so far
    last,              \* the last step: the call, its arguments, its outcome, its I/O
    threads,           \* the concurrent callers: position in the code and locals
    global_validator,  \* contracts._global_validator: 0 (None) or a reference
    instances,         \* the ContractValidator objects created, each with its caches
    accessors,         \* the callers of the module-level functions: position, locals
    trace_context,     \* trace.trace_context, the ContextVar of the execution context
    heap,              \* the dicts the callers of the trace functions hold, by reference
    uuid4_issued,      \* how many IDs uuid.uuid4() has produced
    context_calls,     \* history: the last two set_/clear_current_trace_id calls
    trace_last,        \* the last call of a trace function: arguments and outcome
    request            \* the request the trace middleware is handling, if any

contract_vars == <<fs, schemas_cache, validators_cache, fs_changes, load_failed, last>>
global_vars == <<global_validator, instances, accessors>>
trace_vars == <<trace_context, heap, uuid4_issued, context_calls, trace_last, request>>
vars == <<contract_vars, threads, global_vars, trace_vars>>

----------------------------------------------------------------------------
(* Bounds of the model *)

\* number of times the environment rewrites or deletes a schema file
MaxFsChanges == 2

\* number of dicts the callers of the trace functions hold
MaxObjects == 2

\* number of IDs uuid.uuid4() produces
MaxNewIds == 2

----------------------------------------------------------------------------
(* Values *)

\* property names a schema may require and a payload may carry, in document order
FieldOrder == <<"id", "type">>
Fields == {FieldOrder[i] : i \in 1..Len(FieldOrder)}

NoDoc == [meta_ok |-> FALSE, required |-> {"-"}]

\* parsed JSON documents found in schema files: a schema requiring "id", one
\* requiring "id" and "type", and a JSON document that is no draft 2020-12 schema
DocA == [meta_ok |-> TRUE, required |-> {"id"}]
DocB == [meta_ok |-> TRUE, required |-> {"id", "type"}]
DocBad == [meta_ok |-> FALSE, required |-> {}]

\* a cache without entries
EmptyCache == [k \in {} |-> NoDoc]

\* what a path holds: nothing, text that is not JSON, or a JSON document
Absent == [kind |-> "absent", doc |-> NoDoc]
Garbage == [kind |-> "garbage", doc |-> NoDoc]
JsonFile(d) == [kind |-> "json", doc |-> d]
FileContents == {Absent, Garbage, JsonFile(DocBad), JsonFile(DocA), JsonFile(DocB)}

\* the (schema_name, schema_type) pairs the callers pass ("a/b" is <<"a", "b">>):
\* two mandate schemas, one event schema, and two types that are no schema type
Identifiers == {<<<<"intent_mandate">>, <<"mandates">>>>,
                <<<<"ap2", "intent_mandate">>, <<"mandates">>>>,
                <<<<"orca.decision.v1">>, <<"events">>>>,
                <<<<"intent_mandate">>, <<"bogus">>>>,
                <<<<"intent_mandate">>, <<"mandates", "ap2">>>>}
MandateNames == {id[1] : id \in {i \in Identifiers : i[2] = <<"mandates">>}}

\* the schema files the deployment manages
MandatePath(schema_name) == <<"common", "mandates">> \o schema_name \o <<".schema.json">>
EventPath(schema_name) == <<"common", "events", "v1">> \o schema_name \o <<".schema.json">>
Paths == {MandatePath(<<"intent_mandate">>), MandatePath(<<"ap2", "intent_mandate">>),
          EventPath(<<"orca.decision.v1">>), EventPath(<<"orion.explanation.v1">>),
          EventPath(<<"okra.bnpl_quote.v1">>), EventPath(<<"onyx.kyb_verified.v1">>)}

\* the schema files the environment rewrites or deletes while the process runs
ChangingPaths == {MandatePath(<<"intent_mandate">>), EventPath(<<"orca.decision.v1">>)}

FileAt(files, path) == IF path \in DOMAIN files THEN files[path] ELSE Absent

\* the file a path holds is a JSON document that passes the meta-schema check
IsValidSchemaFile(file) == file.kind = "json" /\ file.doc.meta_ok

\* CloudEvent wire types the callers pass
Phase2WireTypes == {"ocn.orion.explanation.v1", "ocn.okra.bnpl_quote.v1",
                    "ocn.onyx.kyb_verified.v1"}
WireTypes == {"ocn.orca.decision.v1", "ocn.unknown.event.v1"} \cup Phase2WireTypes

\* the event schema the examples of a Phase 2 wire type are written against
Phase2SchemaName(type_name) ==
    CASE type_name = "ocn.orion.explanation.v1" -> <<"orion.explanation.v1">>
      [] type_name = "ocn.okra.bnpl_quote.v1" -> <<"okra.bnpl_quote.v1">>
      [] type_name = "ocn.onyx.kyb_verified.v1" -> <<"onyx.kyb_verified.v1">>

\* payloads: a dict (the set of properties it carries) or text (a token sequence)
DictPayload(s) == [is_str |-> FALSE, text |-> <<>>, value |-> s]
TextPayload(t) == [is_str |-> TRUE, text |-> t, value |-> {}]
Texts == {<<"{", "id", "}">>, <<"{", "id">>}
Payloads == {DictPayload(s) : s \in {{}, {"id"}}} \cup {TextPayload(t) : t \in Texts}

----------------------------------------------------------------------------
(* Outcomes of a call: a return value or a raised exception *)

NoValue == [none |-> TRUE]
Return(v) == [kind |-> "return", exc |-> "", msg |-> <<>>, value |-> v]
Raise(e, m) == [kind |-> "raise", exc |-> e, msg |-> m, value |-> NoValue]
Raised(out) == out.kind = "raise"
Mentions(out, part) == \E i \in 1..Len(out.msg) : out.msg[i] = part

----------------------------------------------------------------------------
(* json.loads / json.load and the jsonschema library *)

\* json.loads(text): an object's properties, or JSONDecodeError
json_loads(text) ==
    IF /\ Len(text) >= 2
       /\ text[1] = "{"
       /\ text[Len(text)] = "}"
       /\ \A i \in 2..(Len(text) - 1) : text[i] \in Fields
    THEN Return({text[i] : i \in 2..(Len(text) - 1)})
    ELSE Raise("JSONDecodeError", <<"Expecting value or delimiter">>)

\* open(schema_path) followed by json.load(f)
json_load(file) ==
    CASE file.kind = "absent" -> Raise("FileNotFoundError", <<"No such file or directory">>)
      [] file.kind = "garbage" -> Raise("JSONDecodeError", <<"Expecting value or delimiter">>)
      [] OTHER -> Return(file.doc)

\* Draft202012Validator.check_schema(schema): raises jsonschema's SchemaError,
\* which is not a subclass of jsonschema's ValidationError
check_schema(schema) ==
    IF schema.meta_ok THEN Return(NoValue)
    ELSE Raise("SchemaError", <<"is not valid under any of the given schemas">>)

\* Draft202012Validator(schema)
Draft202012Validator(schema) == [schema |-> schema]

Violation(field) ==
    [path |-> <<>>, message |-> <<field, "is a required property">>,
     schema_path |-> <<"required">>]

\* validator.iter_errors(instance): one violation per missing required property
iter_errors(validator, instance) ==
    LET missing == SelectSeq(FieldOrder,
                             LAMBDA f : f \in validator.schema.required /\ f \notin instance)
    IN  [i \in 1..Len(missing) |-> Violation(missing[i])]

\* validator.validate(instance): raises the best match of iter_errors, if any
validate(validator, instance) ==
    LET errors == iter_errors(validator, instance)
    IN  IF errors = <<>> THEN Return(NoValue)
        ELSE Raise("ValidationError", errors[1].message)

----------------------------------------------------------------------------
(* SchemaLoader *)

\* cache_key = f"{schema_type}/{schema_name}"
CacheKey(schema_type, schema_name) == schema_type \o schema_name

\* _load_schema after check_schema: the schema, or what the except clauses make of
\* the exception (they name ValidationError; any other exception passes through)
CheckedOutcome(schema, checked) ==
    IF Raised(checked) /\ checked.exc = "ValidationError"
    THEN Raise("ContractValidationError", <<"Invalid schema at">> \o checked.msg)
    ELSE IF Raised(checked) THEN checked
    ELSE Return(schema)

\* _load_schema after open and json.load
LoadedOutcome(loaded) ==
    CASE Raised(loaded) /\ loaded.exc = "JSONDecodeError" ->
            Raise("ContractValidationError", <<"Invalid schema at">> \o loaded.msg)
      [] Raised(loaded) /\ loaded.exc = "FileNotFoundError" ->
            Raise("ContractValidationError", <<"Schema not found at">>)
      [] OTHER -> CheckedOutcome(loaded.value, check_schema(loaded.value))

\* SchemaLoader._load_schema: [out, io]
load_schema(files, schema_path) ==
    [out |-> LoadedOutcome(json_load(FileAt(files, schema_path))), io |-> <<schema_path>>]

\* the path get_schema resolves a schema type of the two to
SchemaPath(schema_name, schema_type) ==
    IF schema_type = <<"mandates">> THEN MandatePath(schema_name) ELSE EventPath(schema_name)

\* mutant: a failed load is remembered (negative caching)
StoreSchemaNegative(schemas, cache_key, loaded) ==
    [out |-> loaded.out,
     schemas |-> (cache_key :> IF Raised(loaded.out) THEN NoDoc ELSE loaded.out.value)
                 @@ schemas,
     io |-> loaded.io]

\* "self._schemas_cache[cache_key] = self._load_schema(schema_path)": an exception
\* of _load_schema leaves the cache as it was
StoreSchema(schemas, cache_key, loaded) ==
    IF Raised(loaded.out)
    THEN [out |-> loaded.out, schemas |-> schemas, io |-> loaded.io]
    ELSE [out |-> loaded.out, schemas |-> (cache_key :> loaded.out.value) @@ schemas,
          io |-> loaded.io]

\* SchemaLoader.get_schema, the branch taken when cache_key is not in the cache:
\* resolve the path or reject the schema type, load, store
get_schema_miss(schemas, files, schema_name, schema_type) ==
    IF schema_type \notin {<<"mandates">>, <<"events">>}
    THEN [out |-> Raise("ContractValidationError", <<"Unknown schema type">>),
          schemas |-> schemas, io |-> <<>>]
    ELSE StoreSchema(schemas, CacheKey(schema_type, schema_name),
                     load_schema(files, SchemaPath(schema_name, schema_type)))

\* mutant: the cache is not consulted, every call loads
get_schema_uncached(schemas, files, schema_name, schema_type) ==
    get_schema_miss(schemas, files, schema_name, schema_type)

\* mutant: the cache keeps the newest document only
get_schema_evicting(schemas, files, schema_name, schema_type) ==
    IF CacheKey(schema_type, schema_name) \in DOMAIN schemas
    THEN [out |-> Return(schemas[CacheKey(schema_type, schema_name)]),
          schemas |-> schemas, io |-> <<>>]
    ELSE IF schema_type \notin {<<"mandates">>, <<"events">>}
    THEN [out |-> Raise("ContractValidationError", <<"Unknown schema type">>),
          schemas |-> schemas, io |-> <<>>]
    ELSE StoreSchema(IF IsValidSchemaFile(FileAt(files, SchemaPath(schema_name, schema_type)))
                     THEN EmptyCache ELSE schemas,
                     CacheKey(schema_type, schema_name),
                     load_schema(files, SchemaPath(schema_name, schema_type)))

\* SchemaLoader.get_schema: [out, schemas, io]
get_schema(schemas, files, schema_name, schema_type) ==
    IF CacheKey(schema_type, schema_name) \in DOMAIN schemas
    THEN [out |-> Return(schemas[CacheKey(schema_type, schema_name)]),
          schemas |-> schemas, io |-> <<>>]
    ELSE get_schema_miss(schemas, files, schema_name, schema_type)

\* the directories list_available_schemas scans
MandatesDir == <<"common", "mandates">>
EventsDir == <<"common", "events", "v1">>

IsUnder(path, dir) == Len(path) > Len(dir) /\ SubSeq(path, 1, Len(dir)) = dir

\* "<dir>.exists()": a directory that holds a file exists; one that holds none may
\* be there, empty, or not be there
DirStates(files, dir) ==
    IF \E p \in DOMAIN files : IsUnder(p, dir) /\ files[p] # Absent
    THEN {TRUE} ELSE {TRUE, FALSE}

\* "<dir>.glob('*.schema.json')": the schema files directly in the directory
glob(files, dir) ==
    {p \in DOMAIN files : /\ files[p] # Absent
                          /\ IsUnder(p, dir)
                          /\ Len(p) = Len(dir) + 2
                          /\ p[Len(p)] = ".schema.json"}

\* "schema_file.stem": the file name without its last suffix, ".json"
stem(path) == <<path[Len(path) - 1], ".schema">>

\* the names appended for one directory (in the order glob yields them, which the
\* file system decides: a set here)
ListedIn(files, dir, exists) == IF exists THEN {stem(p) : p \in glob(files, dir)} ELSE {}

\* mutant: the directories are scanned without asking whether they exist
list_available_schemas_unguarded(files, mandates_exists, events_exists) ==
    IF mandates_exists /\ events_exists
    THEN [out |-> Return([mandates |-> ListedIn(files, MandatesDir, TRUE),
                          events |-> ListedIn(files, EventsDir, TRUE)]),
          io |-> <<MandatesDir, EventsDir>>]
    ELSE [out |-> Raise("FileNotFoundError", <<"No such file or directory">>),
          io |-> <<>>]

\* SchemaLoader.list_available_schemas: [out, io], io the directories scanned
list_available_schemas(files, mandates_exists, events_exists) ==
    [out |-> Return([mandates |-> ListedIn(files, MandatesDir, mandates_exists),
                     events |-> ListedIn(files, EventsDir, events_exists)]),
     io |-> (IF mandates_exists THEN <<MandatesDir>> ELSE <<>>)
            \o (IF events_exists THEN <<EventsDir>> ELSE <<>>)]

----------------------------------------------------------------------------
(* ContractValidator *)

\* mutant: an entry is made in the validator cache whether get_schema succeeded or not
StoreValidatorAlways(validators, cache_key, got) ==
    IF Raised(got.out)
    THEN [out |-> got.out,
          validators |-> (cache_key :> Draft202012Validator(NoDoc)) @@ validators,
          schemas |-> got.schemas, io |-> got.io]
    ELSE [out |-> Return(Draft202012Validator(got.out.value)),
          validators |-> (cache_key :> Draft202012Validator(got.out.value)) @@ validators,
          schemas |-> got.schemas, io |-> got.io]

\* "self._validators_cache[cache_key] = Draft202012Validator(schema)", reached only
\* when get_schema has returned
StoreValidator(validators, cache_key, got) ==
    IF Raised(got.out)
    THEN [out |-> got.out, validators |-> validators, schemas |-> got.schemas,
          io |-> got.io]
    ELSE [out |-> Return(Draft202012Validator(got.out.value)),
          validators |-> (cache_key :> Draft202012Validator(got.out.value)) @@ validators,
          schemas |-> got.schemas, io |-> got.io]

\* ContractValidator._get_validator: [out, validators, schemas, io]
get_validator(validators, schemas, files, schema_name, schema_type) ==
    IF CacheKey(schema_type, schema_name) \in DOMAIN validators
    THEN [out |-> Return(validators[CacheKey(schema_type, schema_name)]),
          validators |-> validators, schemas |-> schemas, io |-> <<>>]
    ELSE StoreValidator(validators, CacheKey(schema_type, schema_name),
                        get_schema(schemas, files, schema_name, schema_type))

\* "if isinstance(payload, str): payload = json.loads(payload)"
parse_payload(payload) ==
    IF payload.is_str THEN json_loads(payload.text) ELSE Return(payload.value)

\* the mapping of CloudEvent type names to schema names in validate_cloudevent
type_to_schema ==
    [t \in {"ocn.orca.decision.v1", "ocn.orca.explanation.v1", "ocn.weave.audit.v1"} |->
        CASE t = "ocn.orca.decision.v1" -> <<"orca.decision.v1">>
          [] t = "ocn.orca.explanation.v1" -> <<"orca.explanation.v1">>
          [] t = "ocn.weave.audit.v1" -> <<"weave.audit.v1">>]

\* mutant: no except clause for json.JSONDecodeError
TranslateFailureNoJsonClause(out, validation_msg) ==
    CASE out.kind = "return" -> out
      [] out.kind = "raise" /\ out.exc = "ValidationError" ->
            Raise("ContractValidationError", <<validation_msg>> \o out.msg)
      [] OTHER ->
            Raise("ContractValidationError", <<"Unexpected validation error">> \o out.msg)

\* mutant: no "except Exception" clause
TranslateFailureNoCatchAll(out, validation_msg) ==
    CASE out.kind = "return" -> out
      [] out.kind = "raise" /\ out.exc = "JSONDecodeError" ->
            Raise("ContractValidationError", <<"Invalid JSON payload">> \o out.msg)
      [] out.kind = "raise" /\ out.exc = "ValidationError" ->
            Raise("ContractValidationError", <<validation_msg>> \o out.msg)
      [] OTHER -> out

\* the except clauses shared by validate_json and validate_cloudevent
TranslateFailure(out, validation_msg) ==
    CASE out.kind = "return" -> out
      [] out.kind = "raise" /\ out.exc = "JSONDecodeError" ->
            Raise("ContractValidationError", <<"Invalid JSON payload">> \o out.msg)
      [] out.kind = "raise" /\ out.exc = "ValidationError" ->
            Raise("ContractValidationError", <<validation_msg>> \o out.msg)
      [] OTHER ->
            Raise("ContractValidationError", <<"Unexpected validation error">> \o out.msg)

\* the call with its outcome passed through the except clauses
Translated(body, validation_msg) ==
    [body EXCEPT !.out = TranslateFailure(body.out, validation_msg)]

\* "validator.validate(payload); return True"
ValidateOutcome(checked) == IF Raised(checked) THEN checked ELSE Return(TRUE)

\* the try block after _get_validator: an exception of _get_validator leaves it,
\* else the validator is applied
ApplyValidator(got, instance) ==
    IF Raised(got.out) THEN got
    ELSE [got EXCEPT !.out = ValidateOutcome(validate(got.out.value, instance))]

\* mutant: the registry is consulted before the payload is parsed
ValidateBodyRegistryFirst(validators, schemas, files, parsed, lookup, schema_name, schema_type) ==
    IF ~lookup
    THEN [out |-> Raise("ContractValidationError", <<"Unknown CloudEvent type">>),
          validators |-> validators, schemas |-> schemas, io |-> <<>>]
    ELSE IF Raised(parsed)
    THEN [out |-> parsed, validators |-> validators, schemas |-> schemas, io |-> <<>>]
    ELSE ApplyValidator(get_validator(validators, schemas, files, schema_name, schema_type),
                        parsed.value)

\* parse, look the validator up, validate: the body of the try blocks, with the
\* exception that leaves it; lookup is FALSE when the body raises before the lookup
ValidateBody(validators, schemas, files, parsed, lookup, schema_name, schema_type) ==
    IF Raised(parsed)
    THEN [out |-> parsed, validators |-> validators, schemas |-> schemas, io |-> <<>>]
    ELSE IF ~lookup
    THEN [out |-> Raise("ContractValidationError", <<"Unknown CloudEvent type">>),
          validators |-> validators, schemas |-> schemas, io |-> <<>>]
    ELSE ApplyValidator(get_validator(validators, schemas, files, schema_name, schema_type),
                        parsed.value)

\* ContractValidator.validate_json: [out, validators, schemas, io]
validate_json(validators, schemas, files, payload, schema_name) ==
    Translated(ValidateBody(validators, schemas, files, parse_payload(payload), TRUE,
                            schema_name, <<"mandates">>),
               "Validation failed for schema")

\* mutant: a type without registry entry falls back to the schema file named after it
validate_cloudevent_fallback(validators, schemas, files, payload, type_name) ==
    Translated(ValidateBody(validators, schemas, files, parse_payload(payload), TRUE,
                            IF type_name \in DOMAIN type_to_schema
                            THEN type_to_schema[type_name]
                            ELSE IF type_name \in Phase2WireTypes
                            THEN Phase2SchemaName(type_name) ELSE <<type_name>>,
                            <<"events">>),
               "Validation failed for CloudEvent type")

\* ContractValidator.validate_cloudevent: [out, validators, schemas, io]
validate_cloudevent(validators, schemas, files, payload, type_name) ==
    Translated(ValidateBody(validators, schemas, files, parse_payload(payload),
                            type_name \in DOMAIN type_to_schema,
                            IF type_name \in DOMAIN type_to_schema
                            THEN type_to_schema[type_name] ELSE <<>>,
                            <<"events">>),
               "Validation failed for CloudEvent type")

\* the one-element list the except clauses of get_validation_errors return
Synthetic(prefix, e) ==
    <<[path |-> <<>>, message |-> <<prefix>> \o e.msg, schema_path |-> <<>>]>>

\* mutant: a failure to get the validator is raised, not returned
CollectErrorsRaising(got, instance) ==
    IF Raised(got.out) THEN got
    ELSE [got EXCEPT !.out = Return(iter_errors(got.out.value, instance))]

\* mutant: a failure to get the validator is answered with the empty list
CollectErrorsEmpty(got, instance) ==
    IF Raised(got.out) THEN [got EXCEPT !.out = Return(<<>>)]
    ELSE [got EXCEPT !.out = Return(iter_errors(got.out.value, instance))]

\* get_validation_errors after the parse: the list of violations, or the
\* exception of _get_validator as a list ("except Exception")
CollectErrors(got, instance) ==
    IF Raised(got.out) THEN [got EXCEPT !.out = Return(Synthetic("Validation error", got.out))]
    ELSE [got EXCEPT !.out = Return(iter_errors(got.out.value, instance))]

\* ContractValidator.get_validation_errors: [out, validators, schemas, io]
get_validation_errors(validators, schemas, files, payload, schema_name, schema_type) ==
    IF Raised(parse_payload(payload))
    THEN [out |-> Return(Synthetic(IF parse_payload(payload).exc = "JSONDecodeError"
                                   THEN "Invalid JSON" ELSE "Validation error",
                                   parse_payload(payload))),
          validators |-> validators, schemas |-> schemas, io |-> <<>>]
    ELSE CollectErrors(get_validator(validators, schemas, files, schema_name, schema_type),
                       parse_payload(payload).value)

----------------------------------------------------------------------------
(* The state machine: one validator with its loader, called sequentially,   *)
(* and an environment that deploys, rewrites and deletes schema files.      *)
(* An action evaluates the call once (\E r \in {call}) and takes the new     *)
(* caches, the outcome and the I/O from that one result. The caller takes   *)
(* the outcome of a call (TakeResult) before the next call is made.         *)

NoPayload == DictPayload({})

Step(op, schema_name, schema_type, type_name, payload, out, io) ==
    [op |-> op, schema_name |-> schema_name, schema_type |-> schema_type,
     type_name |-> type_name, payload |-> payload, out |-> out, io |-> io]

\* the key of a call that opened the schema file and left the cache without it
FailedLoads(r, cache_key) ==
    IF r.io # <<>> /\ cache_key \notin DOMAIN r.schemas THEN {cache_key} ELSE {}

\* no call is under way
Idle == Step("idle", <<>>, <<>>, "", NoPayload, Return(NoValue), <<>>)

\* the schema files when the process starts: all deployed, or none yet (no
\* common/ directory)
Deployed == [p \in Paths |-> JsonFile(DocA)]
NotDeployed == [p \in Paths |-> Absent]
Deployments == {Deployed, NotDeployed}

\* the callers of the shared validator; no call of theirs is under way
Callers == {"t1", "t2", "t3"}
NoCall ==
    [op |-> "none", pc |-> "idle", read |-> Absent, loaded |-> NoDoc, schema |-> NoDoc,
     out |-> Return(NoValue), io |-> <<>>, late |-> FALSE]

\* Python values of the trace module: None, a str (its form, and which one), an int
PyNone == [type |-> "NoneType", form |-> "", n |-> 0]
PyStr(form, n) == [type |-> "str", form |-> form, n |-> n]
PyInt(n) == [type |-> "int", form |-> "", n |-> n]

\* a reference to the n-th dict of the heap
PyRef(n) == [type |-> "dict", form |-> "", n |-> n]

\* no trace function has been called
NoTraceCall == [op |-> "none", args |-> <<>>, out |-> Return(PyNone)]

\* a caller outside the module-level functions
NoAccess ==
    [op |-> "none", pc |-> "idle", made |-> 0, validator |-> 0, out |-> Return(NoValue)]

\* the trace middleware handles no request
NoRequest ==
    [phase |-> "none", headers |-> <<>>, trace_id |-> PyNone,
     handler_context |-> PyNone, handler_set |-> FALSE, handler_read |-> FALSE,
     seen |-> PyNone, response |-> <<>>, raised |-> FALSE]

\* contracts imported: "_global_validator = None", no ContractValidator made
GlobalInit ==
    /\ global_validator = 0
    /\ instances = <<>>
    /\ accessors = [t \in Callers |-> NoAccess]

\* fresh SchemaLoader and ContractValidator: empty caches
LoaderInit ==
    /\ schemas_cache = EmptyCache
    /\ validators_cache = EmptyCache
    /\ fs_changes = 0
    /\ load_failed = {}
    /\ last = Idle
    /\ threads = [t \in Callers |-> NoCall]

\* trace module imported: trace_context has its default, None
TraceModuleInit ==
    /\ trace_context = PyNone
    /\ heap = <<>>
    /\ uuid4_issued = 0
    /\ context_calls = <<>>
    /\ trace_last = NoTraceCall
    /\ request = NoRequest

Init ==
    /\ fs \in Deployments
    /\ LoaderInit
    /\ GlobalInit
    /\ TraceModuleInit

\* the environment writes or deletes one schema file
ChangeFile(path, content) ==
    /\ last = Idle
    /\ fs_changes < MaxFsChanges
    /\ fs[path] # content
    /\ fs' = [fs EXCEPT ![path] = content]
    /\ fs_changes' = fs_changes + 1
    /\ UNCHANGED <<schemas_cache, validators_cache, load_failed, last, threads, global_vars, trace_vars>>

\* the caller has the outcome of its call
TakeResult ==
    /\ last # Idle
    /\ last' = Idle
    /\ UNCHANGED <<fs, schemas_cache, validators_cache, fs_changes, load_failed, threads, global_vars, trace_vars>>

\* loader.get_schema(schema_name, schema_type)
GetSchema(schema_name, schema_type) ==
    /\ last = Idle
    /\ \E r \in {get_schema(schemas_cache, fs, schema_name, schema_type)} :
        /\ schemas_cache' = r.schemas
        /\ load_failed' = load_failed \cup FailedLoads(r, CacheKey(schema_type, schema_name))
        /\ last' = Step("get_schema", schema_name, schema_type, "", NoPayload, r.out, r.io)
        /\ UNCHANGED <<fs, fs_changes, validators_cache, threads, global_vars, trace_vars>>

\* validator._get_validator(schema_name, schema_type)
GetValidator(schema_name, schema_type) ==
    /\ last = Idle
    /\ \E r \in {get_validator(validators_cache, schemas_cache, fs, schema_name, schema_type)} :
        /\ validators_cache' = r.validators
        /\ schemas_cache' = r.schemas
        /\ load_failed' = load_failed \cup FailedLoads(r, CacheKey(schema_type, schema_name))
        /\ last' = Step("get_validator", schema_name, schema_type, "", NoPayload,
                        r.out, r.io)
        /\ UNCHANGED <<fs, fs_changes, threads, global_vars, trace_vars>>

\* validator.validate_json(payload, schema_name)
ValidateJson(payload, schema_name) ==
    /\ last = Idle
    /\ \E r \in {validate_json(validators_cache, schemas_cache, fs, payload, schema_name)} :
        /\ validators_cache' = r.validators
        /\ schemas_cache' = r.schemas
        /\ load_failed' = load_failed \cup FailedLoads(r, CacheKey(<<"mandates">>, schema_name))
        /\ last' = Step("validate_json", schema_name, <<"mandates">>, "", payload,
                        r.out, r.io)
        /\ UNCHANGED <<fs, fs_changes, threads, global_vars, trace_vars>>

\* validator.validate_cloudevent(payload, type_name)
ValidateCloudevent(payload, type_name) ==
    /\ last = Idle
    /\ \E r \in {validate_cloudevent(validators_cache, schemas_cache, fs, payload, type_name)} :
        /\ validators_cache' = r.validators
        /\ schemas_cache' = r.schemas
        /\ load_failed' = load_failed \cup
               IF type_name \in DOMAIN type_to_schema
               THEN FailedLoads(r, CacheKey(<<"events">>, type_to_schema[type_name]))
               ELSE {}
        /\ last' = Step("validate_cloudevent", <<>>, <<"events">>, type_name, payload,
                        r.out, r.io)
        /\ UNCHANGED <<fs, fs_changes, threads, global_vars, trace_vars>>

\* validator.get_validation_errors(payload, schema_name, schema_type)
GetValidationErrors(payload, schema_name, schema_type) ==
    /\ last = Idle
    /\ \E r \in {get_validation_errors(validators_cache, schemas_cache, fs, payload,
                                   schema_name, schema_type)} :
        /\ validators_cache' = r.validators
        /\ schemas_cache' = r.schemas
        /\ load_failed' = load_failed \cup FailedLoads(r, CacheKey(schema_type, schema_name))
        /\ last' = Step("get_validation_errors", schema_name, schema_type, "", payload,
                        r.out, r.io)
        /\ UNCHANGED <<fs, fs_changes, threads, global_vars, trace_vars>>

\* loader.list_available_schemas()
ListAvailableSchemas(mandates_exists, events_exists) ==
    /\ last = Idle
    /\ mandates_exists \in DirStates(fs, MandatesDir)
    /\ events_exists \in DirStates(fs, EventsDir)
    /\ \E r \in {list_available_schemas(fs, mandates_exists, events_exists)} :
        /\ last' = Step("list_available_schemas", <<>>, <<>>, "", NoPayload, r.out, r.io)
        /\ UNCHANGED <<fs, fs_changes, schemas_cache, validators_cache, load_failed,
                       threads, global_vars, trace_vars>>

Next ==
    \/ \E path \in ChangingPaths, content \in FileContents : ChangeFile(path, content)
    \/ \E id \in Identifiers : GetSchema(id[1], id[2])
    \/ \E id \in Identifiers : GetValidator(id[1], id[2])
    \/ \E p \in Payloads, n \in MandateNames : ValidateJson(p, n)
    \/ \E p \in Payloads, w \in WireTypes : ValidateCloudevent(p, w)
    \/ \E p \in Payloads, id \in Identifiers : GetValidationErrors(p, id[1], id[2])
    \/ \E me \in BOOLEAN, ee \in BOOLEAN : ListAvailableSchemas(me, ee)
    \/ TakeResult

Spec == Init /\ [][Next]_vars

----------------------------------------------------------------------------
(* Concurrent callers: threads of one process that share the validator and  *)
(* its loader and make their calls for one identifier. A thread can be      *)
(* preempted between any two accesses to a cache or to the file, so each    *)
(* access is a step of its own. A thread record holds the call (op), the    *)
(* position in the code (pc), the locals (read, loaded, schema), the        *)
(* outcome and the files opened; late records that the call began when the  *)
(* identifier was cached and no other call was under way.                   *)

SharedName == <<"intent_mandate">>
SharedType == <<"mandates">>
SharedKey == CacheKey(SharedType, SharedName)

\* "cache_key not in <cache>"
CacheMissAlways(cache, cache_key) == TRUE
CacheMiss(cache, cache_key) == cache_key \notin DOMAIN cache

\* "<cache>[cache_key] = value"
Assign(cache, cache_key, value) == (cache_key :> value) @@ cache

\* no call of another thread is under way
OthersAtRest(t) == \A u \in Callers \ {t} : threads[u].pc \in {"idle", "done"}

\* a thread calls get_schema or _get_validator for the shared identifier
Begin(t, op) ==
    /\ threads[t].pc = "idle"
    /\ threads' = [threads EXCEPT ![t] =
           [@ EXCEPT !.op = op,
                     !.pc = IF op = "get_validator" THEN "v_check" ELSE "s_check",
                     !.late = /\ OthersAtRest(t)
                              /\ SharedKey \in DOMAIN (IF op = "get_validator"
                                                        THEN validators_cache
                                                        ELSE schemas_cache)]]
    /\ UNCHANGED <<contract_vars, global_vars, trace_vars>>

\* _get_validator: "if cache_key not in self._validators_cache:"
VCheck(t) ==
    /\ threads[t].pc = "v_check"
    /\ threads' = [threads EXCEPT ![t].pc =
           IF CacheMiss(validators_cache, SharedKey) THEN "s_check" ELSE "v_return"]
    /\ UNCHANGED <<contract_vars, global_vars, trace_vars>>

\* get_schema: "if cache_key not in self._schemas_cache:" and the choice of the path
SCheck(t) ==
    /\ threads[t].pc = "s_check"
    /\ threads' = [threads EXCEPT ![t] =
           IF ~CacheMiss(schemas_cache, SharedKey) THEN [@ EXCEPT !.pc = "s_return"]
           ELSE IF SharedType \notin {<<"mandates">>, <<"events">>}
           THEN [@ EXCEPT !.pc = "done",
                          !.out = Raise("ContractValidationError", <<"Unknown schema type">>)]
           ELSE [@ EXCEPT !.pc = "s_load"]]
    /\ UNCHANGED <<contract_vars, global_vars, trace_vars>>

\* get_schema: "self._load_schema(schema_path)", the right-hand side of the
\* assignment; an exception leaves get_schema, and _get_validator if it is the caller
SLoad(t) ==
    /\ threads[t].pc = "s_load"
    /\ \E r \in {load_schema(fs, SchemaPath(SharedName, SharedType))} :
          threads' = [threads EXCEPT ![t] =
             IF Raised(r.out)
             THEN [@ EXCEPT !.pc = "done", !.out = r.out, !.io = r.io,
                            !.read = FileAt(fs, SchemaPath(SharedName, SharedType))]
             ELSE [@ EXCEPT !.pc = "s_store", !.loaded = r.out.value, !.io = r.io,
                            !.read = FileAt(fs, SchemaPath(SharedName, SharedType))]]
    /\ UNCHANGED <<contract_vars, global_vars, trace_vars>>

\* get_schema: "self._schemas_cache[cache_key] = ..."
SStore(t) ==
    /\ threads[t].pc = "s_store"
    /\ schemas_cache' = Assign(schemas_cache, SharedKey, threads[t].loaded)
    /\ threads' = [threads EXCEPT ![t].pc = "s_return"]
    /\ UNCHANGED <<fs, validators_cache, fs_changes, load_failed, last, global_vars, trace_vars>>

\* get_schema: "return self._schemas_cache[cache_key]"
SReturn(t) ==
    /\ threads[t].pc = "s_return"
    /\ threads' = [threads EXCEPT ![t] =
           IF @.op = "get_schema"
           THEN [@ EXCEPT !.pc = "done", !.out = Return(schemas_cache[SharedKey])]
           ELSE [@ EXCEPT !.pc = "v_store", !.schema = schemas_cache[SharedKey]]]
    /\ UNCHANGED <<contract_vars, global_vars, trace_vars>>

\* _get_validator: "self._validators_cache[cache_key] = Draft202012Validator(schema)"
VStore(t) ==
    /\ threads[t].pc = "v_store"
    /\ validators_cache' = Assign(validators_cache, SharedKey,
                                  Draft202012Validator(threads[t].schema))
    /\ threads' = [threads EXCEPT ![t].pc = "v_return"]
    /\ UNCHANGED <<fs, schemas_cache, fs_changes, load_failed, last, global_vars, trace_vars>>

\* _get_validator: "return self._validators_cache[cache_key]"
VReturn(t) ==
    /\ threads[t].pc = "v_return"
    /\ threads' = [threads EXCEPT ![t] =
           [@ EXCEPT !.pc = "done", !.out = Return(validators_cache[SharedKey])]]
    /\ UNCHANGED <<contract_vars, global_vars, trace_vars>>

ConcNext ==
    \/ \E content \in FileContents : ChangeFile(SchemaPath(SharedName, SharedType), content)
    \/ \E t \in Callers, op \in {"get_schema", "get_validator"} : Begin(t, op)
    \/ \E t \in Callers : VCheck(t)
    \/ \E t \in Callers : SCheck(t)
    \/ \E t \in Callers : SLoad(t)
    \/ \E t \in Callers : SStore(t)
    \/ \E t \in Callers : SReturn(t)
    \/ \E t \in Callers : VStore(t)
    \/ \E t \in Callers : VReturn(t)

ConcSpec == Init /\ [][ConcNext]_vars

----------------------------------------------------------------------------
(* The module-level functions and get_contract_validator, called by         *)
(* concurrent threads. A thread can be preempted between any two accesses   *)
(* to the global _global_validator, and between the construction of a       *)
(* ContractValidator and its assignment to the global. The method called on *)
(* the validator obtained is one step here (ConcSpec interleaves it).       *)

\* ContractValidator(): a new validator with a new SchemaLoader, both caches empty
NewValidator == [schemas |-> EmptyCache, validators |-> EmptyCache]

\* the module-level functions, and get_contract_validator called directly
WrapperOps == {"get_contract_validator", "validate_json", "validate_cloudevent",
               "list_available_schemas"}

\* the arguments the callers of the module-level functions pass
WrapperPayload == DictPayload({"id"})
WrapperSchemaName == <<"intent_mandate">>
WrapperTypeName == "ocn.orca.decision.v1"

\* a thread calls a module-level function; each of them begins with
\* get_contract_validator()
Call(t, op) ==
    /\ accessors[t].pc = "idle"
    /\ accessors' = [accessors EXCEPT ![t] = [@ EXCEPT !.op = op, !.pc = "g_check"]]
    /\ UNCHANGED <<contract_vars, threads, global_validator, instances, trace_vars>>

\* get_contract_validator: "if _global_validator is None:"
GCheck(t) ==
    /\ accessors[t].pc = "g_check"
    /\ accessors' = [accessors EXCEPT ![t].pc =
           IF global_validator = 0 THEN "g_make" ELSE "g_return"]
    /\ UNCHANGED <<contract_vars, threads, global_validator, instances, trace_vars>>

\* get_contract_validator: "ContractValidator()", the right-hand side
GMake(t) ==
    /\ accessors[t].pc = "g_make"
    /\ instances' = Append(instances, NewValidator)
    /\ accessors' = [accessors EXCEPT ![t] =
           [@ EXCEPT !.pc = "g_assign", !.made = Len(instances) + 1]]
    /\ UNCHANGED <<contract_vars, threads, global_validator, trace_vars>>

\* get_contract_validator: "_global_validator = ..."
GAssign(t) ==
    /\ accessors[t].pc = "g_assign"
    /\ global_validator' = accessors[t].made
    /\ accessors' = [accessors EXCEPT ![t].pc = "g_return"]
    /\ UNCHANGED <<contract_vars, threads, instances, trace_vars>>

\* get_contract_validator: "return _global_validator"
GReturn(t) ==
    /\ accessors[t].pc = "g_return"
    /\ accessors' = [accessors EXCEPT ![t] =
           IF @.op = "get_contract_validator"
           THEN [@ EXCEPT !.pc = "done", !.validator = global_validator]
           ELSE [@ EXCEPT !.pc = "use", !.validator = global_validator]]
    /\ UNCHANGED <<contract_vars, threads, global_validator, instances, trace_vars>>

\* the method a module-level function calls on the validator it has obtained:
\* [out, validators, schemas]
UseValidator(op, validator, files) ==
    CASE op = "validate_json" ->
            validate_json(validator.validators, validator.schemas, files,
                          WrapperPayload, WrapperSchemaName)
      [] op = "validate_cloudevent" ->
            validate_cloudevent(validator.validators, validator.schemas, files,
                                WrapperPayload, WrapperTypeName)
      [] OTHER ->
            [out |-> list_available_schemas(files, TRUE, TRUE).out,
             validators |-> validator.validators, schemas |-> validator.schemas]

\* "return validator.validate_json(payload, schema_name)" and the like
Use(t) ==
    /\ accessors[t].pc = "use"
    /\ \E r \in {UseValidator(accessors[t].op, instances[accessors[t].validator], fs)} :
        /\ instances' = [instances EXCEPT ![accessors[t].validator] =
               [schemas |-> r.schemas, validators |-> r.validators]]
        /\ accessors' = [accessors EXCEPT ![t] = [@ EXCEPT !.pc = "done", !.out = r.out]]
    /\ UNCHANGED <<contract_vars, threads, global_validator, trace_vars>>

GlobalNext ==
    \/ \E t \in Callers, op \in WrapperOps : Call(t, op)
    \/ \E t \in Callers : GCheck(t)
    \/ \E t \in Callers : GMake(t)
    \/ \E t \in Callers : GAssign(t)
    \/ \E t \in Callers : GReturn(t)
    \/ \E t \in Callers : Use(t)

GlobalSpec == Init /\ [][GlobalNext]_vars

----------------------------------------------------------------------------
(* ocn_common.trace. A dict is a function from keys to values and lives on  *)
(* the heap: callers hold references (indices), 0 is None. uuid.uuid4()     *)
(* yields an ID no one holds yet: the n-th one is PyStr("uuid4", n).        *)

EmptyDict == [k \in {} |-> PyNone]

\* what callers put under 'trace_id': None, "", text that is no UUID, a version 1
\* UUID, a version 4 UUID, a number
TraceIdInputs ==
    {PyNone, PyStr("empty", 0), PyStr("invalid", 0), PyStr("uuid1", 0), PyStr("uuid4", 0),
     PyInt(12345)}

\* the context dicts and CloudEvent envelopes the callers build
CtxInputs ==
    {("user_id" :> PyStr("text", 123))}
    \cup {("trace_id" :> v) @@ ("user_id" :> PyStr("text", 123)) : v \in TraceIdInputs}
EnvelopeInputs ==
    {EmptyDict,
     ("id" :> PyStr("text", 1)) @@ ("type" :> PyStr("text", 2))
        @@ ("subject" :> PyStr("text", 3))}
InputDicts == CtxInputs \cup EnvelopeInputs

\* the trace IDs callers pass to inject_trace_id_ce and set_current_trace_id
TraceIdArgs == {PyStr("uuid4", 0), PyStr("invalid", 0)}

\* "not x" is false for these
Truthy(v) == v \notin {PyNone, PyStr("empty", 0), PyInt(0)}

\* dict.get(key)
DictGet(d, key) == IF key \in DOMAIN d THEN d[key] ELSE PyNone

\* uuid.UUID(x): the parsed UUID, ValueError for a str that is none, TypeError for
\* None, AttributeError for any other value that is no str (it has no .replace)
UUID(x) ==
    CASE x.type = "str" /\ x.form = "uuid4" -> Return([version |-> 4])
      [] x.type = "str" /\ x.form = "uuid1" -> Return([version |-> 1])
      [] x.type = "str" -> Raise("ValueError", <<"badly formed hexadecimal UUID string">>)
      [] x.type = "NoneType" -> Raise("TypeError", <<"one of the arguments must be given">>)
      [] OTHER -> Raise("AttributeError", <<"object has no attribute 'replace'">>)

\* trace._is_valid_trace_id
is_valid_trace_id(trace_id) ==
    IF Raised(UUID(trace_id))
    THEN IF UUID(trace_id).exc \in {"ValueError", "TypeError"} THEN Return(FALSE)
         ELSE UUID(trace_id)
    ELSE Return(UUID(trace_id).value.version = 4)

\* trace.new_trace_id: str(uuid.uuid4())
new_trace_id(issued) == PyStr("uuid4", issued + 1)

\* "ctx['trace_id'] = new_trace_id(); return ctx['trace_id']"
StoreNewTraceId(h, ctx, issued) ==
    [out |-> Return(new_trace_id(issued)),
     heap |-> IF ctx = 0 THEN h
              ELSE [h EXCEPT ![ctx] = ("trace_id" :> new_trace_id(issued)) @@ h[ctx]],
     issued |-> issued + 1]

\* ensure_trace_id after ctx.get('trace_id'): "not existing_trace_id or not
\* _is_valid_trace_id(existing_trace_id)", then the assignment or not, then the return
EnsureExisting(h, ctx, issued, existing, valid) ==
    IF ~Truthy(existing) THEN StoreNewTraceId(h, ctx, issued)
    ELSE IF Raised(valid) THEN [out |-> valid, heap |-> h, issued |-> issued]
    ELSE IF ~valid.value THEN StoreNewTraceId(h, ctx, issued)
    ELSE [out |-> Return(existing), heap |-> h, issued |-> issued]

\* trace.ensure_trace_id: [out, heap, issued]; ctx None is a new dict no one else holds
ensure_trace_id(h, ctx, issued) ==
    EnsureExisting(h, ctx, issued,
                   DictGet(IF ctx = 0 THEN EmptyDict ELSE h[ctx], "trace_id"),
                   is_valid_trace_id(DictGet(IF ctx = 0 THEN EmptyDict ELSE h[ctx],
                                             "trace_id")))

\* mutant: the subject is set in the envelope passed in, which is returned
inject_trace_id_ce_in_place(h, envelope, trace_id) ==
    [out |-> Return(PyRef(envelope)),
     heap |-> [h EXCEPT ![envelope] = ("subject" :> trace_id) @@ h[envelope]]]

\* trace.inject_trace_id_ce: [out, heap]; envelope.copy() is a new dict
inject_trace_id_ce(h, envelope, trace_id) ==
    [out |-> Return(PyRef(Len(h) + 1)),
     heap |-> Append(h, ("subject" :> trace_id) @@ h[envelope])]

\* trace.get_current_trace_id: trace_context.get()
get_current_trace_id(context) == Return(context)

\* trace.set_current_trace_id: trace_context.set(trace_id), the new value
set_current_trace_id(context, trace_id) == trace_id

\* mutant: clear_current_trace_id leaves the context variable alone
clear_current_trace_id_noop(context) == context

\* trace.clear_current_trace_id: trace_context.set(None), the new value
clear_current_trace_id(context) == PyNone

\* the history keeps the last two calls
LastTwo(calls) == IF Len(calls) <= 2 THEN calls ELSE SubSeq(calls, Len(calls) - 1, Len(calls))

TraceCall(op, args, out) == [op |-> op, args |-> args, out |-> out]

\* a caller builds a dict
MakeDict(d) ==
    /\ trace_last.op = "none"
    /\ Len(heap) < MaxObjects
    /\ heap' = Append(heap, d)
    /\ UNCHANGED <<contract_vars, threads, global_vars, request, trace_context, uuid4_issued, context_calls,
                   trace_last>>

\* the caller has the outcome of its call of a trace function
TraceTakeResult ==
    /\ trace_last.op # "none"
    /\ trace_last' = NoTraceCall
    /\ UNCHANGED <<contract_vars, threads, global_vars, request, trace_context, heap, uuid4_issued, context_calls>>

\* ensure_trace_id(ctx)
EnsureTraceId(ctx) ==
    /\ trace_last.op = "none"
    /\ uuid4_issued < MaxNewIds
    /\ \E r \in {ensure_trace_id(heap, ctx, uuid4_issued)} :
        /\ heap' = r.heap
        /\ uuid4_issued' = r.issued
        /\ trace_last' = TraceCall("ensure_trace_id", <<PyRef(ctx)>>, r.out)
    /\ UNCHANGED <<contract_vars, threads, global_vars, request, trace_context, context_calls>>

\* inject_trace_id_ce(envelope, trace_id)
InjectTraceIdCe(envelope, trace_id) ==
    /\ trace_last.op = "none"
    /\ Len(heap) < MaxObjects
    /\ \E r \in {inject_trace_id_ce(heap, envelope, trace_id)} :
        /\ heap' = r.heap
        /\ trace_last' = TraceCall("inject_trace_id_ce", <<PyRef(envelope), trace_id>>,
                                   r.out)
    /\ UNCHANGED <<contract_vars, threads, global_vars, request, trace_context, uuid4_issued, context_calls>>

\* set_current_trace_id(trace_id)
SetCurrentTraceId(trace_id) ==
    /\ trace_last.op = "none"
    /\ trace_context' = set_current_trace_id(trace_context, trace_id)
    /\ context_calls' = LastTwo(Append(context_calls, [op |-> "set", arg |-> trace_id]))
    /\ trace_last' = TraceCall("set_current_trace_id", <<trace_id>>, Return(PyNone))
    /\ UNCHANGED <<contract_vars, threads, global_vars, request, heap, uuid4_issued>>

\* clear_current_trace_id()
ClearCurrentTraceId ==
    /\ trace_last.op = "none"
    /\ trace_context' = clear_current_trace_id(trace_context)
    /\ context_calls' = LastTwo(Append(context_calls, [op |-> "clear", arg |-> PyNone]))
    /\ trace_last' = TraceCall("clear_current_trace_id", <<>>, Return(PyNone))
    /\ UNCHANGED <<contract_vars, threads, global_vars, request, heap, uuid4_issued>>

\* get_current_trace_id()
GetCurrentTraceId ==
    /\ trace_last.op = "none"
    /\ trace_last' = TraceCall("get_current_trace_id", <<>>,
                               get_current_trace_id(trace_context))
    /\ UNCHANGED <<contract_vars, threads, global_vars, request, trace_context, heap, uuid4_issued, context_calls>>

TraceInit ==
    /\ fs = Deployed
    /\ LoaderInit
    /\ GlobalInit
    /\ TraceModuleInit

TraceNext ==
    \/ \E d \in InputDicts : MakeDict(d)
    \/ \E ctx \in 0..MaxObjects : ctx <= Len(heap) /\ EnsureTraceId(ctx)
    \/ \E envelope \in 1..MaxObjects, trace_id \in TraceIdArgs :
          envelope <= Len(heap) /\ InjectTraceIdCe(envelope, trace_id)
    \/ \E trace_id \in TraceIdArgs : SetCurrentTraceId(trace_id)
    \/ ClearCurrentTraceId
    \/ GetCurrentTraceId
    \/ TraceTakeResult

TraceSpec == TraceInit /\ [][TraceNext]_vars

----------------------------------------------------------------------------
(* trace.trace_middleware: TraceMiddleware.dispatch handling one request.   *)
(* The server runs each request in a task of its own, so a request has its  *)
(* own copy of the context variable; call_next runs the route handler in a  *)
(* further task, which starts with a copy of the context as dispatch has    *)
(* set it and whose own changes stay in that copy. Between two requests the *)
(* application may call the context functions.                              *)

TRACE_HEADER == "x-ocn-trace-id"

\* the headers of the requests: no trace header, an empty one, a UUID, other text
RequestHeaders ==
    {EmptyDict} \cup
    {(TRACE_HEADER :> v) :
        v \in {PyStr("empty", 0), PyStr("uuid4", 0), PyStr("invalid", 0)}}

\* the headers of the response the handler returns
HandlerResponses == {EmptyDict, (TRACE_HEADER :> PyStr("invalid", 0))}

\* mutant: only an absent header is replaced by a new ID
dispatch_trace_id_keep_empty(headers, issued) ==
    IF DictGet(headers, TRACE_HEADER) # PyNone
    THEN [trace_id |-> DictGet(headers, TRACE_HEADER), issued |-> issued]
    ELSE [trace_id |-> new_trace_id(issued), issued |-> issued + 1]

\* dispatch: "trace_id = request.headers.get(TRACE_HEADER)", then
\* "if not trace_id: trace_id = new_trace_id()": [trace_id, issued]
dispatch_trace_id(headers, issued) ==
    IF Truthy(DictGet(headers, TRACE_HEADER))
    THEN [trace_id |-> DictGet(headers, TRACE_HEADER), issued |-> issued]
    ELSE [trace_id |-> new_trace_id(issued), issued |-> issued + 1]

\* dispatch up to "await call_next(request)": the trace ID is chosen and set in
\* the context, and the handler starts with a copy of the context
Dispatch(headers) ==
    /\ request.phase = "none"
    /\ trace_last.op = "none"
    /\ uuid4_issued < MaxNewIds
    /\ \E r \in {dispatch_trace_id(headers, uuid4_issued)} :
        /\ uuid4_issued' = r.issued
        /\ trace_context' = set_current_trace_id(trace_context, r.trace_id)
        /\ context_calls' =
               LastTwo(Append(context_calls, [op |-> "set", arg |-> r.trace_id]))
        /\ request' = [NoRequest EXCEPT
               !.phase = "call_next", !.headers = headers, !.trace_id = r.trace_id,
               !.handler_context = set_current_trace_id(trace_context, r.trace_id)]
    /\ UNCHANGED <<contract_vars, threads, global_vars, heap, trace_last>>

\* the route handler calls get_current_trace_id()
HandlerGet ==
    /\ request.phase = "call_next"
    /\ ~request.handler_read
    /\ request' = [request EXCEPT
           !.handler_read = TRUE,
           !.seen = get_current_trace_id(request.handler_context).value]
    /\ UNCHANGED <<contract_vars, threads, global_vars, trace_context, heap, uuid4_issued,
                   context_calls, trace_last>>

\* the route handler calls set_current_trace_id(trace_id), in its own context
HandlerSet(trace_id) ==
    /\ request.phase = "call_next"
    /\ ~request.handler_set
    /\ ~request.handler_read
    /\ request' = [request EXCEPT
           !.handler_set = TRUE,
           !.handler_context = set_current_trace_id(request.handler_context, trace_id)]
    /\ UNCHANGED <<contract_vars, threads, global_vars, trace_context, heap, uuid4_issued,
                   context_calls, trace_last>>

\* call_next returns a response: "response.headers[TRACE_HEADER] = trace_id",
\* "return response", then the finally clause
CallNextReturns(response) ==
    /\ request.phase = "call_next"
    /\ trace_context' = clear_current_trace_id(trace_context)
    /\ context_calls' = LastTwo(Append(context_calls, [op |-> "clear", arg |-> PyNone]))
    /\ request' = [request EXCEPT
           !.phase = "done",
           !.response = (TRACE_HEADER :> request.trace_id) @@ response]
    /\ UNCHANGED <<contract_vars, threads, global_vars, heap, uuid4_issued, trace_last>>

\* call_next raises: the finally clause runs and the exception leaves dispatch
CallNextRaises ==
    /\ request.phase = "call_next"
    /\ trace_context' = clear_current_trace_id(trace_context)
    /\ context_calls' = LastTwo(Append(context_calls, [op |-> "clear", arg |-> PyNone]))
    /\ request' = [request EXCEPT !.phase = "done", !.raised = TRUE]
    /\ UNCHANGED <<contract_vars, threads, global_vars, heap, uuid4_issued, trace_last>>

\* the server has the response or the exception; the next request can come
RequestDone ==
    /\ request.phase = "done"
    /\ request' = NoRequest
    /\ UNCHANGED <<contract_vars, threads, global_vars, trace_context, heap, uuid4_issued,
                   context_calls, trace_last>>

MiddlewareNext ==
    \/ \E headers \in RequestHeaders : Dispatch(headers)
    \/ HandlerGet
    \/ \E trace_id \in TraceIdArgs : HandlerSet(trace_id)
    \/ \E response \in HandlerResponses : CallNextReturns(response)
    \/ CallNextRaises
    \/ RequestDone
    \/ \E trace_id \in TraceIdArgs : request.phase = "none" /\ SetCurrentTraceId(trace_id)
    \/ request.phase = "none" /\ ClearCurrentTraceId
    \/ request.phase = "none" /\ GetCurrentTraceId
    \/ TraceTakeResult

MiddlewareSpec == TraceInit /\ [][MiddlewareNext]_vars

----------------------------------------------------------------------------
(* Properties *)

ValidTypes == {<<"mandates">>, <<"events">>}

\* the cache key of the call recorded in last
LastKey == CacheKey(last.schema_type, last.schema_name)

\* C1: once get_schema has succeeded for an identifier, every later call returns the
\* document the first call returned and stored, and opens no file, whatever has
\* become of the file; the same holds for the validator of _get_validator.
C1_CachedEntryIsReturnedWithoutIO ==
    [][ /\ \A k \in DOMAIN schemas_cache :
              k \in DOMAIN schemas_cache' /\ schemas_cache'[k] = schemas_cache[k]
        /\ \A k \in DOMAIN validators_cache :
              k \in DOMAIN validators_cache' /\ validators_cache'[k] = validators_cache[k]
        /\ last'.op = "get_schema" =>
              IF LastKey' \in DOMAIN schemas_cache
              THEN last'.out = Return(schemas_cache[LastKey']) /\ last'.io = <<>>
              ELSE ~Raised(last'.out) => schemas_cache'[LastKey'] = last'.out.value
        /\ last'.op = "get_validator" =>
              IF LastKey' \in DOMAIN validators_cache
              THEN last'.out = Return(validators_cache[LastKey']) /\ last'.io = <<>>
              ELSE ~Raised(last'.out) => validators_cache'[LastKey'] = last'.out.value
      ]_vars

\* a get_schema call answered from the cache although the file has since changed
C1_Witness ==
    /\ last.op = "get_schema"
    /\ last.schema_type \in ValidTypes
    /\ ~Raised(last.out)
    /\ last.io = <<>>
    /\ FileAt(fs, SchemaPath(last.schema_name, last.schema_type)) # JsonFile(last.out.value)

\* C2: a get_schema call for an identifier that is not cached (never loaded, or every
\* load failed) opens the schema file; when the file is missing or invalid the call
\* fails and the cache is left as it was, without an entry for the identifier; when
\* the file is present and valid the call succeeds and caches the document.
C2_FailedLoadIsNotCached ==
    [][ (/\ last'.op = "get_schema"
         /\ last'.schema_type \in ValidTypes
         /\ LastKey' \notin DOMAIN schemas_cache) =>
            LET path == SchemaPath(last'.schema_name, last'.schema_type)
            IN  /\ last'.io = <<path>>
                /\ IF IsValidSchemaFile(FileAt(fs, path))
                   THEN /\ last'.out = Return(FileAt(fs, path).doc)
                        /\ LastKey' \in DOMAIN schemas_cache'
                        /\ schemas_cache'[LastKey'] = FileAt(fs, path).doc
                   ELSE /\ Raised(last'.out)
                        /\ schemas_cache' = schemas_cache
                        /\ LastKey' \notin DOMAIN schemas_cache'
      ]_vars

\* a get_schema call that loads and caches an identifier whose load failed before
C2_Witness ==
    /\ last.op = "get_schema"
    /\ LastKey \in load_failed
    /\ ~Raised(last.out)
    /\ last.io # <<>>
    /\ LastKey \in DOMAIN schemas_cache

\* the payload is a dict, or text that parses, and carries what the document requires
Conforms(payload, doc) ==
    /\ ~Raised(parse_payload(payload))
    /\ doc.required \subseteq parse_payload(payload).value

\* C3: validate_cloudevent with a Phase 2 wire type and an event that conforms to the
\* deployed event schema of that type returns true.
C3_Phase2EventsValidate ==
    (/\ last.op = "validate_cloudevent"
     /\ last.type_name \in Phase2WireTypes
     /\ IsValidSchemaFile(FileAt(fs, EventPath(Phase2SchemaName(last.type_name))))
     /\ Conforms(last.payload, FileAt(fs, EventPath(Phase2SchemaName(last.type_name))).doc))
    => last.out = Return(TRUE)

Unparseable(payload) == payload.is_str /\ Raised(json_loads(payload.text))

\* C4 as stated: validate_cloudevent with a wire type that has no registry entry fails
\* with 'Unknown CloudEvent type' and opens no schema file, whatever the payload.
C4_UnknownTypeAlwaysReported ==
    (last.op = "validate_cloudevent" /\ last.type_name \notin DOMAIN type_to_schema)
    => /\ Raised(last.out)
       /\ last.out.exc = "ContractValidationError"
       /\ Mentions(last.out, "Unknown CloudEvent type")
       /\ last.io = <<>>

\* C4, amended: validate_cloudevent with a wire type that has no registry entry opens
\* no schema file and changes neither cache; it fails with ContractValidationError,
\* 'Unknown CloudEvent type' when the payload is a dict or parseable text, and
\* 'Invalid JSON payload' when the payload is text that does not parse.
C4_UnknownTypeRejectedBeforeResolution ==
    [][ (last'.op = "validate_cloudevent" /\ last'.type_name \notin DOMAIN type_to_schema)
        => /\ last'.io = <<>>
           /\ schemas_cache' = schemas_cache
           /\ validators_cache' = validators_cache
           /\ Raised(last'.out)
           /\ last'.out.exc = "ContractValidationError"
           /\ IF Unparseable(last'.payload)
              THEN /\ Mentions(last'.out, "Invalid JSON payload")
                   /\ ~Mentions(last'.out, "Unknown CloudEvent type")
              ELSE Mentions(last'.out, "Unknown CloudEvent type")
      ]_vars

\* an unregistered wire type is rejected although the schema file named after it is
\* deployed and the event conforms to it
C4_Witness ==
    /\ last.op = "validate_cloudevent"
    /\ last.type_name \in Phase2WireTypes
    /\ last.type_name \notin DOMAIN type_to_schema
    /\ IsValidSchemaFile(FileAt(fs, EventPath(Phase2SchemaName(last.type_name))))
    /\ Conforms(last.payload, FileAt(fs, EventPath(Phase2SchemaName(last.type_name))).doc)
    /\ Mentions(last.out, "Unknown CloudEvent type")

\* C5: get_schema with a schema type other than "mandates" and "events" fails with
\* 'Unknown schema type' on every call, opens no file and caches nothing.
C5_UnknownCategoryAlwaysFails ==
    (last.op = "get_schema" /\ last.schema_type \notin ValidTypes)
    => /\ Raised(last.out)
       /\ last.out.exc = "ContractValidationError"
       /\ Mentions(last.out, "Unknown schema type")
       /\ last.io = <<>>
       /\ LastKey \notin DOMAIN schemas_cache

\* get_validation_errors has parsed the payload and got no validator
LookupFailed ==
    /\ last.op = "get_validation_errors"
    /\ ~Unparseable(last.payload)
    /\ LastKey \notin DOMAIN validators_cache

\* C6 as stated: get_validation_errors turns only a JSON parse failure into a returned
\* sequence; a failure to get the validator (schema not found, invalid schema, unknown
\* schema type) reaches the caller as a raised error.
C6_OnlyParseFailureIsSwallowed ==
    LookupFailed => Raised(last.out)

\* C6, amended: get_validation_errors never raises; a JSON parse failure and equally
\* every failure to get the validator (schema not found, invalid schema, unknown
\* schema type) is returned as a sequence of exactly one synthetic violation, with
\* message 'Invalid JSON: ...' for the former and 'Validation error: ...' for the latter.
C6_EveryFailureIsReturnedAsOneViolation ==
    last.op = "get_validation_errors"
    => /\ ~Raised(last.out)
       /\ Unparseable(last.payload) =>
             /\ Len(last.out.value) = 1
             /\ last.out.value[1].message[1] = "Invalid JSON"
       /\ LookupFailed =>
             /\ Len(last.out.value) = 1
             /\ last.out.value[1].message[1] = "Validation error"
             /\ last.out.value[1].path = <<>>
             /\ last.out.value[1].schema_path = <<>>

\* get_validation_errors returned a violation for a schema file that is not there
C6_Witness ==
    /\ LookupFailed
    /\ last.schema_type \in ValidTypes
    /\ last.io # <<>>
    /\ FileAt(fs, last.io[1]) = Absent
    /\ ~Raised(last.out)

\* C7: in every reachable state (between calls) and for every payload,
\* get_validation_errors returns the empty sequence exactly when the fail-fast
\* validation of the same payload against the same schema returns true:
\* validate_json for a mandate schema, validate_cloudevent for the event schema of
\* a registered wire type.
C7_EmptyExactlyWhenValid ==
    last.op = "idle" =>
        /\ \A p \in Payloads, n \in MandateNames :
              (get_validation_errors(validators_cache, schemas_cache, fs, p, n,
                                     <<"mandates">>).out.value = <<>>)
              <=> (validate_json(validators_cache, schemas_cache, fs, p, n).out = Return(TRUE))
        /\ \A p \in Payloads, w \in DOMAIN type_to_schema :
              (get_validation_errors(validators_cache, schemas_cache, fs, p, type_to_schema[w],
                                     <<"events">>).out.value = <<>>)
              <=> (validate_cloudevent(validators_cache, schemas_cache, fs, p, w).out
                      = Return(TRUE))

\* get_validation_errors has returned the empty sequence for a text payload, and
\* another payload fails against the same schema
C7_Witness ==
    /\ last.op = "get_validation_errors"
    /\ last.payload.is_str
    /\ last.out = Return(<<>>)
    /\ \E p \in Payloads :
          Raised(validate_json(validators_cache, schemas_cache, fs, p, last.schema_name).out)

\* C8: text that does not parse as JSON makes validate_json and validate_cloudevent
\* fail with ContractValidationError 'Invalid JSON payload' and makes
\* get_validation_errors return a sequence of exactly one violation.
C8_MalformedJson ==
    Unparseable(last.payload)
    => /\ last.op \in {"validate_json", "validate_cloudevent"} =>
             /\ Raised(last.out)
             /\ last.out.exc = "ContractValidationError"
             /\ last.out.msg[1] = "Invalid JSON payload"
       /\ last.op = "get_validation_errors" =>
             /\ ~Raised(last.out)
             /\ Len(last.out.value) = 1

\* validate_cloudevent has been called with text that does not parse
C8_Witness ==
    /\ last.op = "validate_cloudevent"
    /\ Unparseable(last.payload)
    /\ last.type_name \in DOMAIN type_to_schema

\* C9: get_schema fails with ContractValidationError 'Invalid schema at' when the file
\* is not JSON and when it is JSON that fails the meta-schema check, and with
\* ContractValidationError 'Schema not found at' when the file does not exist.
C9_LoadFailuresAreContractErrors ==
    (last.op = "get_schema" /\ last.io # <<>>)
    => LET file == FileAt(fs, last.io[1])
       IN  /\ file.kind = "absent" =>
                 /\ Raised(last.out)
                 /\ last.out.exc = "ContractValidationError"
                 /\ Mentions(last.out, "Schema not found at")
           /\ (file.kind = "garbage" \/ (file.kind = "json" /\ ~file.doc.meta_ok)) =>
                 /\ Raised(last.out)
                 /\ last.out.exc = "ContractValidationError"
                 /\ Mentions(last.out, "Invalid schema at")

\* C10: no step removes an entry from the schema cache or from the validator cache;
\* each cache is a dict, so it holds one value per key at any time.
C10_CachesOnlyGrow ==
    [][ /\ DOMAIN schemas_cache \subseteq DOMAIN schemas_cache'
        /\ DOMAIN validators_cache \subseteq DOMAIN validators_cache'
      ]_vars

\* both caches hold several entries after loads, file changes and a failed call
C10_Witness ==
    /\ Cardinality(DOMAIN schemas_cache) >= 2
    /\ Cardinality(DOMAIN validators_cache) >= 2
    /\ fs_changes >= 1
    /\ Raised(last.out)

\* C12: every call of validate_json and validate_cloudevent returns True or raises
\* ContractValidationError, whatever went wrong inside: a parse error, an unknown
\* event type, a missing or invalid schema file, a violation, any other exception.
C12_OnlyContractValidationError ==
    last.op \in {"validate_json", "validate_cloudevent"}
    => \/ last.out = Return(TRUE)
       \/ Raised(last.out) /\ last.out.exc = "ContractValidationError"

\* validate_json met a schema file that fails the meta-schema check: the SchemaError
\* of _load_schema has become a ContractValidationError
C12_Witness ==
    /\ last.op = "validate_json"
    /\ last.io # <<>>
    /\ FileAt(fs, last.io[1]) = JsonFile(DocBad)
    /\ Raised(last.out)
    /\ Mentions(last.out, "Unexpected validation error")

\* the category has no schema file directly in its directory
NothingToList(files, dir) == glob(files, dir) = {}

\* C13: list_available_schemas does not fail and changes neither cache; for a
\* category whose directory is absent or holds no schema file it returns the empty
\* collection.
C13_ListingNothingIsEmpty ==
    [][ last'.op = "list_available_schemas"
        => /\ ~Raised(last'.out)
           /\ schemas_cache' = schemas_cache
           /\ validators_cache' = validators_cache
           /\ NothingToList(fs, MandatesDir) => last'.out.value.mandates = {}
           /\ NothingToList(fs, EventsDir) => last'.out.value.events = {}
           /\ (\A i \in 1..Len(last'.io) : last'.io[i] # MandatesDir) =>
                 last'.out.value.mandates = {}
           /\ (\A i \in 1..Len(last'.io) : last'.io[i] # EventsDir) =>
                 last'.out.value.events = {}
      ]_vars

\* the events directory is absent, the mandates directory is there without a schema
\* file in it, and schemas are cached: both lists are empty
C13_Witness ==
    /\ last.op = "list_available_schemas"
    /\ last.io = <<MandatesDir>>
    /\ last.out = Return([mandates |-> {}, events |-> {}])
    /\ DOMAIN schemas_cache # {}

\* C17: _get_validator makes its cache entry only after get_schema has succeeded.
\* When get_schema fails, its exception reaches the caller of _get_validator as it
\* is and the validator cache is left as it was; when it succeeds, the validator of
\* the returned document is cached. In every reachable state each key of the
\* validator cache is a key of the schema cache.
C17_ValidatorOnlyAfterSchema ==
    /\ [](DOMAIN validators_cache \subseteq DOMAIN schemas_cache)
    /\ [][ (last'.op = "get_validator" /\ LastKey' \notin DOMAIN validators_cache)
            => LET got == get_schema(schemas_cache, fs, last'.schema_name,
                                     last'.schema_type)
               IN  IF Raised(got.out)
                   THEN /\ last'.out = got.out
                        /\ validators_cache' = validators_cache
                   ELSE /\ LastKey' \in DOMAIN validators_cache'
                        /\ validators_cache'[LastKey'] = Draft202012Validator(got.out.value)
                        /\ last'.out = Return(Draft202012Validator(got.out.value))
          ]_vars

\* _get_validator has passed on the SchemaError of a schema file that fails the
\* meta-schema check, while other validators are cached
C17_Witness ==
    /\ last.op = "get_validator"
    /\ Raised(last.out)
    /\ last.out.exc = "SchemaError"
    /\ LastKey \notin DOMAIN validators_cache
    /\ DOMAIN validators_cache # {}

\* C20: validate_json and validate_cloudevent parse a text payload first: text that
\* is not JSON fails with 'Invalid JSON payload' before the wire type is looked at
\* (also when the wire type has no registry entry), no schema file is read and
\* neither cache changes. validate_cloudevent consults the registry next: a parsed
\* payload with an unregistered wire type fails with 'Unknown CloudEvent type'
\* without a validator lookup. The lookup comes last: a parsed payload with a
\* registered type, or any parsed payload of validate_json, reads the schema file
\* unless the validator is cached.
C20_ParseThenRegistryThenLookup ==
    [][ last'.op \in {"validate_json", "validate_cloudevent"}
        => /\ Unparseable(last'.payload) =>
                 /\ last'.io = <<>>
                 /\ schemas_cache' = schemas_cache
                 /\ validators_cache' = validators_cache
                 /\ Raised(last'.out)
                 /\ last'.out.exc = "ContractValidationError"
                 /\ last'.out.msg[1] = "Invalid JSON payload"
                 /\ ~Mentions(last'.out, "Unknown CloudEvent type")
           /\ (/\ ~Unparseable(last'.payload)
               /\ last'.op = "validate_cloudevent"
               /\ last'.type_name \notin DOMAIN type_to_schema) =>
                 /\ last'.io = <<>>
                 /\ schemas_cache' = schemas_cache
                 /\ validators_cache' = validators_cache
                 /\ Mentions(last'.out, "Unknown CloudEvent type")
           /\ (/\ ~Unparseable(last'.payload)
               /\ last'.op = "validate_cloudevent" => last'.type_name \in DOMAIN type_to_schema
               /\ LET name == IF last'.op = "validate_json" THEN last'.schema_name
                               ELSE type_to_schema[last'.type_name]
                  IN  /\ CacheKey(last'.schema_type, name) \notin DOMAIN validators_cache
                      /\ CacheKey(last'.schema_type, name) \notin DOMAIN schemas_cache) =>
                 last'.io # <<>>
      ]_vars

\* validate_cloudevent was given text that is not JSON and a wire type without
\* registry entry, with nothing cached yet
C20_Witness ==
    /\ last.op = "validate_cloudevent"
    /\ Unparseable(last.payload)
    /\ last.type_name \notin DOMAIN type_to_schema
    /\ Mentions(last.out, "Invalid JSON payload")
    /\ schemas_cache = EmptyCache

\* the documents the concurrent callers have loaded from the schema file
LoadedDocs ==
    {threads[u].loaded : u \in {c \in Callers : /\ threads[c].io # <<>>
                                                 /\ IsValidSchemaFile(threads[c].read)}}

\* C11: callers that make the first access to one identifier concurrently end with
\* one cache entry for it; a caller fails only if its own load of the schema file
\* failed, and every other caller receives a document loaded from the file by one
\* of the callers (duplicate loads may happen); a call begun when the identifier is
\* cached and no other call is under way opens no file and returns the cached entry.
C11_ConcurrentFirstAccessConverges ==
    \A t \in Callers :
        threads[t].pc = "done" =>
            /\ Raised(threads[t].out) =>
                  /\ threads[t].io # <<>>
                  /\ ~IsValidSchemaFile(threads[t].read)
            /\ ~Raised(threads[t].out) =>
                  /\ SharedKey \in DOMAIN schemas_cache
                  /\ threads[t].op = "get_schema" => threads[t].out.value \in LoadedDocs
                  /\ threads[t].op = "get_validator" =>
                        /\ SharedKey \in DOMAIN validators_cache
                        /\ threads[t].out.value \in
                               {Draft202012Validator(d) : d \in LoadedDocs}
            /\ threads[t].late =>
                  /\ threads[t].io = <<>>
                  /\ threads[t].op = "get_schema" =>
                        threads[t].out = Return(schemas_cache[SharedKey])
                  /\ threads[t].op = "get_validator" =>
                        threads[t].out = Return(validators_cache[SharedKey])

\* two callers have both loaded the schema file, one before and one after it was
\* rewritten, both have returned, and a third call begun afterwards has returned
C11_Witness ==
    /\ \A t \in Callers : threads[t].pc = "done" /\ ~Raised(threads[t].out)
    /\ \E t, u, w \in Callers :
          /\ threads[t].io # <<>>
          /\ threads[u].io # <<>>
          /\ threads[t].loaded # threads[u].loaded
          /\ threads[w].late
          /\ threads[w].op = "get_schema"

\* C18: in every reachable state, also after concurrent first accesses to one
\* identifier with the schema file rewritten between the duplicate loads, the
\* validator cached for an identifier is the one compiled from the document cached
\* for that identifier.
C18_ValidatorMatchesCachedSchema ==
    \A k \in DOMAIN validators_cache :
        /\ k \in DOMAIN schemas_cache
        /\ validators_cache[k] = Draft202012Validator(schemas_cache[k])

\* C19: once a call has made the entry of an identifier in the schema cache or in
\* the validator cache, no step of any caller replaces it with another document or
\* validator.
C19_EntriesNeverOverwritten ==
    [][ /\ \A k \in DOMAIN schemas_cache :
              k \in DOMAIN schemas_cache' /\ schemas_cache'[k] = schemas_cache[k]
        /\ \A k \in DOMAIN validators_cache :
              k \in DOMAIN validators_cache' /\ validators_cache'[k] = validators_cache[k]
      ]_vars

\* the value is a str that holds a version 4 UUID
ValidUuid4(v) == v.type = "str" /\ v.form = "uuid4"

\* C14: ensure_trace_id(ctx) returns ctx['trace_id'] and leaves ctx as it is when
\* that value is a valid UUID4; for any other value (absent, None, empty, malformed)
\* it generates a new ID, stores it under ctx['trace_id'], returns it and leaves the
\* other keys of ctx as they are; a second call on the same ctx returns the same ID.
C14_EnsureTraceId ==
    [][ (trace_last'.op = "ensure_trace_id" /\ trace_last'.args[1].n # 0)
        => LET c == trace_last'.args[1].n
               existing == DictGet(heap[c], "trace_id")
           IN  /\ ~Raised(trace_last'.out)
               /\ IF ValidUuid4(existing)
                  THEN /\ trace_last'.out = Return(existing)
                       /\ heap'[c] = heap[c]
                  ELSE /\ trace_last'.out = Return(new_trace_id(uuid4_issued))
                       /\ heap'[c]["trace_id"] = trace_last'.out.value
                       /\ DOMAIN heap'[c] = DOMAIN heap[c] \cup {"trace_id"}
                       /\ \A k \in DOMAIN heap[c] \ {"trace_id"} : heap'[c][k] = heap[c][k]
               /\ ensure_trace_id(heap', c, uuid4_issued').out = trace_last'.out
               /\ ensure_trace_id(heap', c, uuid4_issued').heap = heap'
      ]_vars

\* C15: inject_trace_id_ce(envelope, trace_id) leaves the envelope passed in (and
\* every other dict) as it is and returns a new dict whose subject is trace_id,
\* whatever subject the envelope had, and whose other fields are those of the
\* envelope.
C15_InjectCopies ==
    [][ trace_last'.op = "inject_trace_id_ce"
        => LET e == trace_last'.args[1].n
               result == trace_last'.out.value.n
           IN  /\ ~Raised(trace_last'.out)
               /\ result # e
               /\ result \notin DOMAIN heap
               /\ result \in DOMAIN heap'
               /\ \A i \in DOMAIN heap : heap'[i] = heap[i]
               /\ DOMAIN heap'[result] = DOMAIN heap[e] \cup {"subject"}
               /\ heap'[result]["subject"] = trace_last'.args[2]
               /\ \A k \in DOMAIN heap[e] \ {"subject"} : heap'[result][k] = heap[e][k]
      ]_vars

\* an envelope that had another subject has been injected with a trace ID
C15_Witness ==
    /\ trace_last.op = "inject_trace_id_ce"
    /\ "subject" \in DOMAIN heap[trace_last.args[1].n]
    /\ "id" \in DOMAIN heap[trace_last.args[1].n]
    /\ heap[trace_last.args[1].n]["subject"] # trace_last.args[2]
    /\ heap[trace_last.out.value.n]["subject"] = trace_last.args[2]

\* what the set_ and clear_ calls made so far leave as the current trace ID
ExpectedCurrent ==
    IF Len(context_calls) = 0 THEN PyNone
    ELSE IF context_calls[Len(context_calls)].op = "clear" THEN PyNone
    ELSE context_calls[Len(context_calls)].arg

\* C16: after any sequence of set_current_trace_id and clear_current_trace_id calls,
\* get_current_trace_id returns the argument of the last set_current_trace_id if no
\* clear_current_trace_id followed it, and None if the last call was a
\* clear_current_trace_id or nothing was set.
C16_CurrentIsLastSet ==
    /\ get_current_trace_id(trace_context) = Return(ExpectedCurrent)
    /\ trace_last.op = "get_current_trace_id" => trace_last.out = Return(ExpectedCurrent)

\* get_current_trace_id has returned None after a set followed by a clear
C16_Witness ==
    /\ trace_last.op = "get_current_trace_id"
    /\ Len(context_calls) = 2
    /\ context_calls[1].op = "set"
    /\ context_calls[2].op = "clear"
    /\ trace_last.out = Return(PyNone)

\* C21: get_contract_validator creates at most one ContractValidator; every call,
\* in any interleaving of concurrent callers, returns the same instance, so the
\* module-level functions all work on one pair of caches.
C21_OneGlobalValidator ==
    /\ Len(instances) <= 1
    /\ \A t, u \in Callers :
          (accessors[t].validator # 0 /\ accessors[u].validator # 0)
          => accessors[t].validator = accessors[u].validator

\* the trace header of the request being handled is present and not empty
HeaderGiven == DictGet(request.headers, TRACE_HEADER) \notin {PyNone, PyStr("empty", 0)}

\* C22: for every request the trace middleware handles, the trace ID is the value of
\* the x-ocn-trace-id request header when present and non-empty, otherwise an ID
\* generated for this request; the current trace ID equals it while the request is
\* processed (in dispatch and, until the handler sets its own, in the handler); a
\* returned response carries it in its x-ocn-trace-id header; and when handling has
\* ended, by return or by exception, the current trace ID is None.
C22_MiddlewareTraceId ==
    /\ [](request.phase # "none" =>
            /\ HeaderGiven => request.trace_id = DictGet(request.headers, TRACE_HEADER)
            /\ ~HeaderGiven => request.trace_id = PyStr("uuid4", uuid4_issued)
            /\ request.phase = "call_next" => trace_context = request.trace_id
            /\ (request.handler_read /\ ~request.handler_set)
                  => request.seen = request.trace_id
            /\ request.phase = "done" =>
                  /\ trace_context = PyNone
                  /\ request.raised
                        \/ DictGet(request.response, TRACE_HEADER) = request.trace_id)
    /\ [][(request.phase = "none" /\ request'.phase = "call_next")
            => IF Truthy(DictGet(request'.headers, TRACE_HEADER))
               THEN uuid4_issued' = uuid4_issued
               ELSE uuid4_issued' = uuid4_issued + 1]_vars

\* C22 witness: the second request without a usable trace header (an empty one):
\* the handler saw the ID generated for it, then raised, and the context is None
C22_Witness ==
    /\ request.phase = "done"
    /\ request.raised
    /\ request.headers = (TRACE_HEADER :> PyStr("empty", 0))
    /\ request.trace_id = PyStr("uuid4", 2)
    /\ request.handler_read
    /\ request.seen = request.trace_id
    /\ trace_context = PyNone
    /\ context_calls = <<[op |-> "set", arg |-> PyStr("uuid4", 2)],
                         [op |-> "clear", arg |-> PyNone]>>

====
